---------------------------- MODULE Spec2Model ----------------------------
(***************************************************************************)
(* The typing session engine of src/main.py (class TypingGame): the game   *)
(* state machine driven by on_key, the character workers started with      *)
(* run_worker(handle_character(..)), the interval timers registered with   *)
(* set_interval, line completion, final metrics and the user aggregate.    *)
(*                                                                         *)
(* Text is a sequence of one-character strings.  Time is in whole seconds. *)
(* Percentages (accuracy, live_accuracy) and live_wpm are kept in tenths,  *)
(* truncated: 1000 is 100.0 %.                                             *)
(*                                                                         *)
(* The application object is the record `self`; a handler of the source is *)
(* an operator from the record before the call to the record after it.     *)
(* The fields `workers` and `intervals` are the framework's part of the    *)
(* state: the handle_character coroutines handed to run_worker that have   *)
(* not run yet, and how many interval timers call each callback (the       *)
(* source never stops a timer).  `users_file` is the content of users.json.*)
(***************************************************************************)
EXTENDS Integers, Sequences, FiniteSets

VARIABLES
    self,     \* the TypingGame object (fields as in the source) and its pending work
    now,      \* time.time(), in seconds
    detours   \* slips and resets made by the user so far

vars == <<self, now, detours>>

-----------------------------------------------------------------------------
(* Bounds of the exploration *)

MaxQueue == 2       \* character workers pending at once
MaxExtraChars == 0  \* characters typed in one session beyond the length of the longest paragraph
MaxDetours == 3     \* slips (off-target keys, backspaces) plus resets (mode, cancel, retry, new, menu)
MaxSlipOffset == 3  \* slips happen at the first offsets of a line only
MaxTime == 31       \* last value of the clock
MaxFairDetours == 2 \* detours of the user in the specification with fairness
MaxSlips == 3       \* slips of the user who types one test only
MaxLongTime == 61   \* last value of the clock in the specification with two periods
MaxParagraphLen == 5 \* characters of a paragraph passed to split_into_lines alone
MaxLineWords == 3   \* largest max_words_per_line passed to split_into_lines alone

(* Program constants *)

SprintSeconds == 30         \* update_countdown: max(0, 30.0 - elapsed)
SprintWords == 30           \* check_line_completion: total_words_typed >= 30
max_words_per_line == 10    \* split_into_lines default argument

TimeStep == SprintSeconds

None == "None"

-----------------------------------------------------------------------------
(* Text *)

RECURSIVE SplitFrom(_, _, _)
\* str.split(): the maximal runs of non-whitespace characters of s, in order.
\* i is the next position, cur the word being read.
SplitFrom(s, i, cur) ==
    IF i > Len(s)
    THEN IF cur = <<>> THEN <<>> ELSE <<cur>>
    ELSE IF s[i] = " "
         THEN IF cur = <<>> THEN SplitFrom(s, i + 1, <<>>)
              ELSE <<cur>> \o SplitFrom(s, i + 1, <<>>)
         ELSE SplitFrom(s, i + 1, Append(cur, s[i]))

split(s) == SplitFrom(s, 1, <<>>)

RECURSIVE join(_)
\* " ".join(words)
join(words) ==
    IF words = <<>> THEN <<>>
    ELSE IF Len(words) = 1 THEN words[1]
    ELSE words[1] \o <<" ">> \o join(Tail(words))

RECURSIVE SplitLoop(_, _, _, _)
\* the for loop of split_into_lines from word i on, current_line being cur
SplitLoop(words, i, cur, max) ==
    IF i > Len(words)
    THEN IF cur # <<>> THEN <<join(cur)>> ELSE <<>>
    ELSE LET cur1 == Append(cur, words[i])
         IN IF Len(cur1) >= max
            THEN <<join(cur1)>> \o SplitLoop(words, i + 1, <<>>, max)
            ELSE SplitLoop(words, i + 1, cur1, max)

\* split_into_lines closing a line only when it holds more than max words
split_into_linesOverfull(paragraph, max) == SplitLoop(split(paragraph), 1, <<>>, max + 1)

split_into_lines(paragraph, max) == SplitLoop(split(paragraph), 1, <<>>, max)

RECURSIVE WordsOfA(_)
\* a paragraph of n one-letter words "a" separated by single spaces
WordsOfA(n) == IF n <= 1 THEN <<"a">> ELSE <<"a", " ">> \o WordsOfA(n - 1)

\* the paragraph sets texts.json may hold: one eleven-word paragraph (a ten-word
\* line and a one-word line), or a three-word and a four-word paragraph
Corpora == {{WordsOfA(max_words_per_line + 1)}, {WordsOfA(3), WordsOfA(4)}}

Users == {"ann"}

NewAggregate ==
    [tests_completed |-> 0, total_wpm |-> 0, best_wpm |-> 0,
     total_accuracy |-> 0, best_accuracy |-> 0]


-----------------------------------------------------------------------------
(* The object after construction: the class attributes of TypingGame *)

Fresh ==
    [game_state |-> "MENU", target_text |-> <<>>, typed_text |-> <<>>,
     completed |-> FALSE, start_time |-> 0, elapsed_time |-> 0,
     accuracy |-> 0, mistakes |-> 0,
     game_mode |-> None, current_line_index |-> 0, lines_completed |-> 0,
     total_chars_typed |-> 0, total_words_typed |-> 0,
     countdown_remaining |-> SprintSeconds,
     current_user |-> None, user_data |-> <<>>,
     mistake_positions |-> {},
     current_streak |-> 0, best_streak |-> 0, live_wpm |-> 0, live_accuracy |-> 0,
     current_lines |-> <<>>, current_paragraph |-> <<>>,
     phrases |-> {}, paragraphs |-> {},
     raised |-> None,
     completed_lines_history |-> <<>>,
     workers |-> <<>>,
     intervals |-> [f \in {"update_countdown", "update_timer"} |-> 0],
     users_file |-> [current_user |-> None, users |-> <<>>]]

\* user_data is a function from the usernames it holds to their aggregates
HasUser(data, u) == u \in DOMAIN data
WithUser(data, u, agg) == [v \in (DOMAIN data) \cup {u} |-> IF v = u THEN agg ELSE data[v]]

\* save_user_data: writes current_user and user_data to users.json; an IOError
\* is swallowed and leaves the file as it was
\* save_user_data letting the IOError of a failed write through
save_user_dataRaises(s, io_ok) ==
    IF io_ok
    THEN [s EXCEPT !.users_file = [current_user |-> s.current_user, users |-> s.user_data]]
    ELSE [s EXCEPT !.raised = "IOError"]

save_user_data(s, io_ok) ==
    IF io_ok
    THEN [s EXCEPT !.users_file = [current_user |-> s.current_user, users |-> s.user_data]]
    ELSE s

create_user(s, username) ==
    IF ~HasUser(s.user_data, username)
    THEN [s EXCEPT !.user_data = WithUser(s.user_data, username, NewAggregate)]
    ELSE s

\* update_user_stats ignoring a result equal to the user's bests
update_user_statsSkipsRepeat(s, wpm, accuracy, io_ok) ==
    IF s.current_user = None THEN s
    ELSE LET s1 == IF ~HasUser(s.user_data, s.current_user)
                   THEN create_user(s, s.current_user) ELSE s
             user == s1.user_data[s1.current_user]
             user1 == [tests_completed |-> user.tests_completed + 1,
                       total_wpm |-> user.total_wpm + wpm,
                       best_wpm |-> IF wpm > user.best_wpm THEN wpm ELSE user.best_wpm,
                       total_accuracy |-> user.total_accuracy + accuracy,
                       best_accuracy |-> IF accuracy > user.best_accuracy
                                         THEN accuracy ELSE user.best_accuracy]
         IN IF user.tests_completed > 0 /\ wpm = user.best_wpm
               /\ accuracy = user.best_accuracy
            THEN save_user_data(s1, io_ok)
            ELSE save_user_data(
                   [s1 EXCEPT !.user_data = WithUser(s1.user_data, s1.current_user, user1)],
                   io_ok)

\* update_user_stats taking the latest values as the best ones
update_user_statsLastIsBest(s, wpm, accuracy, io_ok) ==
    IF s.current_user = None THEN s
    ELSE LET s1 == IF ~HasUser(s.user_data, s.current_user)
                   THEN create_user(s, s.current_user) ELSE s
             user == s1.user_data[s1.current_user]
             user1 == [tests_completed |-> user.tests_completed + 1,
                       total_wpm |-> user.total_wpm + wpm,
                       best_wpm |-> wpm,
                       total_accuracy |-> user.total_accuracy + accuracy,
                       best_accuracy |-> accuracy]
         IN save_user_data(
                [s1 EXCEPT !.user_data = WithUser(s1.user_data, s1.current_user, user1)],
                io_ok)

update_user_stats(s, wpm, accuracy, io_ok) ==
    IF s.current_user = None THEN s
    ELSE LET s1 == IF ~HasUser(s.user_data, s.current_user)
                   THEN create_user(s, s.current_user) ELSE s
             user == s1.user_data[s1.current_user]
             user1 == [tests_completed |-> user.tests_completed + 1,
                       total_wpm |-> user.total_wpm + wpm,
                       best_wpm |-> IF wpm > user.best_wpm THEN wpm ELSE user.best_wpm,
                       total_accuracy |-> user.total_accuracy + accuracy,
                       best_accuracy |-> IF accuracy > user.best_accuracy
                                         THEN accuracy ELSE user.best_accuracy]
         IN save_user_data(
                [s1 EXCEPT !.user_data = WithUser(s1.user_data, s1.current_user, user1)],
                io_ok)

-----------------------------------------------------------------------------
(* Metrics *)

\* ((total_chars_typed - mistakes) / total_chars_typed) * 100, in tenths
Percent(chars, mistakes) == ((chars - mistakes) * 1000) \div chars

\* FinalWpm taking one minute for zero elapsed time in the 30word mode too
FinalWpmMinuteFallback(mode, chars, elapsed) ==
    IF mode = "30sec" THEN (2 * chars) \div 5
    ELSE IF mode = "30word"
         THEN IF elapsed > 0 THEN (SprintWords * 60) \div elapsed ELSE SprintWords
         ELSE IF elapsed > 0 THEN (12 * chars) \div elapsed
              ELSE chars \div 5

\* FinalWpm with the minutes of the 30sec mode taken from the elapsed time
FinalWpmByElapsed(mode, chars, elapsed) ==
    IF mode = "30word"
    THEN IF elapsed > 0 THEN (SprintWords * 60) \div elapsed ELSE 0
    ELSE IF elapsed > 0 THEN (12 * chars) \div elapsed
         ELSE chars \div 5

\* int(words / minutes) of complete_game, by mode
FinalWpm(mode, chars, elapsed) ==
    IF mode = "30sec" THEN (2 * chars) \div 5              \* (chars / 5) / 0.5
    ELSE IF mode = "30word"
         THEN IF elapsed > 0 THEN (SprintWords * 60) \div elapsed ELSE 0
         ELSE IF elapsed > 0 THEN (12 * chars) \div elapsed  \* (chars / 5) / (elapsed / 60)
              ELSE chars \div 5                             \* minutes = 1

-----------------------------------------------------------------------------
(* Completion *)

HistoryEntry(s) == <<s.target_text, s.typed_text, s.mistake_positions>>

\* complete_game.  env.now is time.time(), env.io_ok whether users.json can be
\* written.  With no current user the source waits for the username dialog; the
\* dialog is answered with no name here (every state reached has a current user
\* once the menu is shown).
complete_game(s, env) ==
    LET s1 == [s EXCEPT !.completed = TRUE, !.game_state = "COMPLETE"]
        s2 == IF s1.typed_text # <<>>
              THEN [s1 EXCEPT !.completed_lines_history = Append(@, HistoryEntry(s1))]
              ELSE s1
        s3 == IF s2.start_time > 0
              THEN [s2 EXCEPT !.elapsed_time = env.now - s2.start_time] ELSE s2
        s4 == [s3 EXCEPT !.accuracy = IF s3.total_chars_typed > 0
                                      THEN Percent(s3.total_chars_typed, s3.mistakes)
                                      ELSE 0]
        wpm == FinalWpm(s4.game_mode, s4.total_chars_typed, s4.elapsed_time)
    IN IF s4.current_user # None
       THEN update_user_stats(s4, wpm, s4.accuracy, env.io_ok)
       ELSE s4

\* the paragraph drawn by random.choice(self.paragraphs) is env.choice
NewParagraph(s, paragraph) ==
    LET lines == split_into_lines(paragraph, max_words_per_line)
    IN [s EXCEPT !.current_paragraph = paragraph, !.current_lines = lines,
                 !.current_line_index = 0, !.target_text = lines[1],
                 !.typed_text = <<>>, !.mistake_positions = {}]

\* check_line_completion advancing to the next line without clearing the
\* mistake set
check_line_completionKeepsMarks(s, env) ==
    IF Len(s.typed_text) = Len(s.target_text)
    THEN LET s1 == [s EXCEPT !.completed_lines_history = Append(@, HistoryEntry(s)),
                             !.lines_completed = @ + 1,
                             !.total_words_typed = @ + Len(split(s.target_text))]
         IN IF s1.game_mode = "30word" /\ s1.total_words_typed >= SprintWords
            THEN complete_game(s1, env)
            ELSE IF s1.current_line_index < Len(s1.current_lines) - 1
                 THEN [s1 EXCEPT !.current_line_index = @ + 1,
                                 !.target_text = s1.current_lines[s1.current_line_index + 2],
                                 !.typed_text = <<>>]
                 ELSE IF s1.game_mode = "30sec" THEN NewParagraph(s1, env.choice)
                      ELSE IF s1.game_mode = "unlimited" THEN complete_game(s1, env)
                      ELSE s1
    ELSE s

\* check_line_completion with the 30sec mode ending the test at the last line,
\* as the unlimited mode does
check_line_completionSprintEnds(s, env) ==
    IF Len(s.typed_text) = Len(s.target_text)
    THEN LET s1 == [s EXCEPT !.completed_lines_history = Append(@, HistoryEntry(s)),
                             !.lines_completed = @ + 1,
                             !.total_words_typed = @ + Len(split(s.target_text))]
         IN IF s1.game_mode = "30word" /\ s1.total_words_typed >= SprintWords
            THEN complete_game(s1, env)
            ELSE IF s1.current_line_index < Len(s1.current_lines) - 1
                 THEN [s1 EXCEPT !.current_line_index = @ + 1,
                                 !.target_text = s1.current_lines[s1.current_line_index + 2],
                                 !.typed_text = <<>>, !.mistake_positions = {}]
                 ELSE IF s1.game_mode \in {"30sec", "unlimited"} THEN complete_game(s1, env)
                      ELSE s1
    ELSE s

\* check_line_completion storing the mistake set itself in the history, not
\* a copy: clearing the set on the line advance empties the stored one too
check_line_completionStoresReference(s, env) ==
    IF Len(s.typed_text) = Len(s.target_text)
    THEN LET s1 == [s EXCEPT !.completed_lines_history = Append(@, HistoryEntry(s)),
                             !.lines_completed = @ + 1,
                             !.total_words_typed = @ + Len(split(s.target_text))]
             aliased == [i \in 1..Len(s1.completed_lines_history) |->
                           <<s1.completed_lines_history[i][1],
                             s1.completed_lines_history[i][2], {}>>]
         IN IF s1.game_mode = "30word" /\ s1.total_words_typed >= SprintWords
            THEN complete_game(s1, env)
            ELSE IF s1.current_line_index < Len(s1.current_lines) - 1
                 THEN [s1 EXCEPT !.current_line_index = @ + 1,
                                 !.target_text = s1.current_lines[s1.current_line_index + 2],
                                 !.typed_text = <<>>, !.mistake_positions = {},
                                 !.completed_lines_history = aliased]
                 ELSE IF s1.game_mode = "30sec"
                      THEN NewParagraph([s1 EXCEPT !.completed_lines_history = aliased],
                                        env.choice)
                      ELSE IF s1.game_mode = "unlimited" THEN complete_game(s1, env)
                      ELSE s1
    ELSE s

\* check_line_completion counting the spaces of the line instead of its words
check_line_completionCountsSpaces(s, env) ==
    IF Len(s.typed_text) = Len(s.target_text)
    THEN LET s1 == [s EXCEPT !.completed_lines_history = Append(@, HistoryEntry(s)),
                             !.lines_completed = @ + 1,
                             !.total_words_typed = @ + Len(split(s.target_text)) - 1]
         IN IF s1.game_mode = "30word" /\ s1.total_words_typed >= SprintWords
            THEN complete_game(s1, env)
            ELSE IF s1.current_line_index < Len(s1.current_lines) - 1
                 THEN [s1 EXCEPT !.current_line_index = @ + 1,
                                 !.target_text = s1.current_lines[s1.current_line_index + 2],
                                 !.typed_text = <<>>, !.mistake_positions = {}]
                 ELSE IF s1.game_mode = "30sec" THEN NewParagraph(s1, env.choice)
                      ELSE IF s1.game_mode = "unlimited" THEN complete_game(s1, env)
                      ELSE s1
    ELSE s

check_line_completion(s, env) ==
    IF Len(s.typed_text) = Len(s.target_text)
    THEN LET s1 == [s EXCEPT !.completed_lines_history = Append(@, HistoryEntry(s)),
                             !.lines_completed = @ + 1,
                             !.total_words_typed = @ + Len(split(s.target_text))]
         IN IF s1.game_mode = "30word" /\ s1.total_words_typed >= SprintWords
            THEN complete_game(s1, env)
            ELSE IF s1.current_line_index < Len(s1.current_lines) - 1
                 THEN [s1 EXCEPT !.current_line_index = @ + 1,
                                 !.target_text = s1.current_lines[s1.current_line_index + 2],
                                 !.typed_text = <<>>, !.mistake_positions = {}]
                 ELSE IF s1.game_mode = "30sec" THEN NewParagraph(s1, env.choice)
                      ELSE IF s1.game_mode = "unlimited" THEN complete_game(s1, env)
                      ELSE s1
    ELSE s

-----------------------------------------------------------------------------
(* Character input *)

set_interval(s, callback) == [s EXCEPT !.intervals[callback] = @ + 1]

\* StartTimer without the set_interval calls
StartTimerNoInterval(s, env) ==
    IF Len(s.typed_text) = 0 /\ s.start_time = 0
    THEN [s EXCEPT !.start_time = env.now]
    ELSE s

\* handle_character lines 1608-1615: the timer start
StartTimer(s, env) ==
    IF Len(s.typed_text) = 0 /\ s.start_time = 0
    THEN LET s1 == [s EXCEPT !.start_time = env.now]
         IN IF s1.game_mode = "30sec" THEN set_interval(s1, "update_countdown")
            ELSE IF s1.game_mode \in {"unlimited", "30word"}
                 THEN set_interval(s1, "update_timer")
                 ELSE s1
    ELSE s

\* TypeChar without the update of best_streak
TypeCharNoBest(s, char, env) ==
    LET typed == Append(s.typed_text, char)
        current_pos == Len(typed) - 1
        wrong == current_pos < Len(s.target_text)
                 /\ typed[current_pos + 1] # s.target_text[current_pos + 1]
        s1 == [s EXCEPT !.typed_text = typed, !.total_chars_typed = @ + 1]
        s2 == IF wrong
              THEN [s1 EXCEPT
                      !.mistake_positions = @ \cup {current_pos},
                      !.mistakes = IF current_pos \notin s1.mistake_positions
                                   THEN @ + 1 ELSE @,
                      !.current_streak = 0]
              ELSE [s1 EXCEPT !.current_streak = @ + 1]
        s3 == IF s2.start_time > 0
              THEN [s2 EXCEPT !.elapsed_time = env.now - s2.start_time] ELSE s2
    IN IF s3.start_time > 0
       THEN [s3 EXCEPT
               !.live_wpm = IF s3.elapsed_time > 0
                            THEN (120 * s3.total_chars_typed) \div s3.elapsed_time ELSE @,
               !.live_accuracy = IF s3.total_chars_typed > 0
                                 THEN Percent(s3.total_chars_typed, s3.mistakes) ELSE @]
       ELSE s3

\* TypeChar counting a mistake at an offset that is marked already
TypeCharNoDedup(s, char, env) ==
    LET typed == Append(s.typed_text, char)
        current_pos == Len(typed) - 1
        wrong == current_pos < Len(s.target_text)
                 /\ typed[current_pos + 1] # s.target_text[current_pos + 1]
        s1 == [s EXCEPT !.typed_text = typed, !.total_chars_typed = @ + 1]
        s2 == IF wrong
              THEN [s1 EXCEPT
                      !.mistake_positions = @ \cup {current_pos},
                      !.mistakes = @ + 1,
                      !.current_streak = 0]
              ELSE [s1 EXCEPT
                      !.current_streak = @ + 1,
                      !.best_streak = IF s1.current_streak + 1 > @
                                      THEN s1.current_streak + 1 ELSE @]
        s3 == IF s2.start_time > 0
              THEN [s2 EXCEPT !.elapsed_time = env.now - s2.start_time] ELSE s2
    IN IF s3.start_time > 0
       THEN [s3 EXCEPT
               !.live_wpm = IF s3.elapsed_time > 0
                            THEN (120 * s3.total_chars_typed) \div s3.elapsed_time ELSE @,
               !.live_accuracy = IF s3.total_chars_typed > 0
                                 THEN Percent(s3.total_chars_typed, s3.mistakes) ELSE @]
       ELSE s3

\* handle_character lines 1632-1659: append, mistake tracking, streaks, live stats
TypeChar(s, char, env) ==
    LET typed == Append(s.typed_text, char)
        current_pos == Len(typed) - 1
        wrong == current_pos < Len(s.target_text)
                 /\ typed[current_pos + 1] # s.target_text[current_pos + 1]
        s1 == [s EXCEPT !.typed_text = typed, !.total_chars_typed = @ + 1]
        s2 == IF wrong
              THEN [s1 EXCEPT
                      !.mistake_positions = @ \cup {current_pos},
                      !.mistakes = IF current_pos \notin s1.mistake_positions
                                   THEN @ + 1 ELSE @,
                      !.current_streak = 0]
              ELSE [s1 EXCEPT
                      !.current_streak = @ + 1,
                      !.best_streak = IF s1.current_streak + 1 > @
                                      THEN s1.current_streak + 1 ELSE @]
        s3 == IF s2.start_time > 0
              THEN [s2 EXCEPT !.elapsed_time = env.now - s2.start_time] ELSE s2
    IN IF s3.start_time > 0
       THEN [s3 EXCEPT
               !.live_wpm = IF s3.elapsed_time > 0
                            THEN (120 * s3.total_chars_typed) \div s3.elapsed_time ELSE @,
               !.live_accuracy = IF s3.total_chars_typed > 0
                                 THEN Percent(s3.total_chars_typed, s3.mistakes) ELSE @]
       ELSE s3

\* handle_character without the guards of lines 1617-1630 against typing past
\* the end of the target line
handle_characterNoLimit(s, char, env) ==
    IF char = " " /\ Len(s.typed_text) = 0 /\ Len(s.target_text) > 0
       /\ s.target_text[1] # " "
    THEN s
    ELSE check_line_completion(TypeChar(StartTimer(s, env), char, env), env)

\* handle_character without the space grace of lines 1602-1606
handle_characterNoGrace(s, char, env) ==
    LET s1 == StartTimer(s, env)
    IN IF Len(s1.typed_text) >= Len(s1.target_text)
       THEN check_line_completion(s1, env)
       ELSE check_line_completion(TypeChar(s1, char, env), env)

\* handle_character starting the clock before it discards a leading space
handle_characterEarlyClock(s, char, env) ==
    LET s1 == StartTimer(s, env)
    IN IF char = " " /\ Len(s.typed_text) = 0 /\ Len(s.target_text) > 0
          /\ s.target_text[1] # " "
       THEN s1
       ELSE IF Len(s1.typed_text) >= Len(s1.target_text)
            THEN check_line_completion(s1, env)
            ELSE check_line_completion(TypeChar(s1, char, env), env)

handle_character(s, char, env) ==
    IF char = " " /\ Len(s.typed_text) = 0 /\ Len(s.target_text) > 0
       /\ s.target_text[1] # " "
    THEN s
    ELSE LET s1 == StartTimer(s, env)
         IN IF Len(s1.typed_text) >= Len(s1.target_text)
            THEN check_line_completion(s1, env)
            ELSE check_line_completion(TypeChar(s1, char, env), env)

-----------------------------------------------------------------------------
(* Timer callbacks *)

Max(a, b) == IF a >= b THEN a ELSE b

\* update_countdown without the call of complete_game
update_countdownNoComplete(s, env) ==
    IF s.start_time > 0 /\ ~s.completed
    THEN LET elapsed == env.now - s.start_time
         IN [s EXCEPT !.elapsed_time = elapsed,
                      !.countdown_remaining = Max(0, SprintSeconds - elapsed)]
    ELSE s

\* update_countdown completing only when countdown_remaining is below 0
update_countdownStrict(s, env) ==
    IF s.start_time > 0 /\ ~s.completed
    THEN LET elapsed == env.now - s.start_time
             s1 == [s EXCEPT !.elapsed_time = elapsed,
                             !.countdown_remaining = Max(0, SprintSeconds - elapsed)]
         IN IF s1.countdown_remaining < 0 THEN complete_game(s1, env) ELSE s1
    ELSE s

update_countdown(s, env) ==
    IF s.start_time > 0 /\ ~s.completed
    THEN LET elapsed == env.now - s.start_time
             s1 == [s EXCEPT !.elapsed_time = elapsed,
                             !.countdown_remaining = Max(0, SprintSeconds - elapsed)]
         IN IF s1.countdown_remaining <= 0 THEN complete_game(s1, env) ELSE s1
    ELSE s

update_timer(s, env) ==
    IF s.start_time > 0 /\ ~s.completed
    THEN [s EXCEPT !.elapsed_time = env.now - s.start_time]
    ELSE s

-----------------------------------------------------------------------------
(* Mode and state changes *)

\* the resets shared by start_mode, restart and return_to_menu
ResetCounters(s) ==
    [s EXCEPT !.typed_text = <<>>, !.completed = FALSE, !.start_time = 0,
              !.elapsed_time = 0, !.accuracy = 0, !.mistakes = 0,
              !.mistake_positions = {}, !.lines_completed = 0,
              !.total_chars_typed = 0, !.total_words_typed = 0,
              !.countdown_remaining = SprintSeconds,
              !.completed_lines_history = <<>>,
              !.current_streak = 0, !.best_streak = 0,
              !.live_wpm = 0, !.live_accuracy = 0]

start_mode(s, mode, paragraph) ==
    LET lines == split_into_lines(paragraph, max_words_per_line)
    IN ResetCounters([s EXCEPT !.game_state = "MENU", !.game_mode = mode,
                               !.current_paragraph = paragraph, !.current_lines = lines,
                               !.current_line_index = 0, !.target_text = lines[1]])

\* ready_up resetting the session as restart does
ready_upResets(s) == ResetCounters([s EXCEPT !.game_state = "READY"])

ready_up(s) == [s EXCEPT !.game_state = "READY"]

cancel_ready(s) ==
    [s EXCEPT !.game_state = "MENU", !.typed_text = <<>>,
              !.start_time = 0, !.elapsed_time = 0]

\* cancel_test resetting the character count and not the mistake count
cancel_testClearsChars(s) ==
    [s EXCEPT !.game_state = "MENU", !.typed_text = <<>>,
              !.start_time = 0, !.elapsed_time = 0, !.total_chars_typed = 0]

\* cancel_test emptying the history and nothing else of the counters
cancel_testClearsHistory(s) ==
    [s EXCEPT !.game_state = "MENU", !.typed_text = <<>>,
              !.start_time = 0, !.elapsed_time = 0,
              !.completed_lines_history = <<>>]

cancel_test(s) ==
    [s EXCEPT !.game_state = "MENU", !.typed_text = <<>>,
              !.start_time = 0, !.elapsed_time = 0]

\* return_to_menu resetting no more than cancel_test does, and the mode
return_to_menuAsCancel(s) ==
    [s EXCEPT !.game_state = "MENU", !.game_mode = None, !.typed_text = <<>>,
              !.start_time = 0, !.elapsed_time = 0]

return_to_menu(s) ==
    ResetCounters([s EXCEPT !.game_state = "MENU", !.game_mode = None,
                            !.current_line_index = 0, !.current_lines = <<>>,
                            !.current_paragraph = <<>>])

\* restart leaving the completed flag as it is
restartKeepsFlag(s) ==
    IF s.game_mode # None
    THEN LET lines == split_into_lines(s.current_paragraph, max_words_per_line)
         IN [ResetCounters([s EXCEPT !.game_state = "READY", !.current_lines = lines,
                                     !.current_line_index = 0, !.target_text = lines[1]])
               EXCEPT !.completed = s.completed]
    ELSE s

restart(s) ==
    IF s.game_mode # None
    THEN LET lines == split_into_lines(s.current_paragraph, max_words_per_line)
         IN ResetCounters([s EXCEPT !.game_state = "READY", !.current_lines = lines,
                                    !.current_line_index = 0, !.target_text = lines[1]])
    ELSE s

\* new_paragraph starting the 30sec mode whatever the mode was
new_paragraphFirstMode(s, paragraph) ==
    IF s.game_mode # None THEN start_mode(s, "30sec", paragraph) ELSE s

\* new_paragraph going on to READY, as its docstring has it
new_paragraphReady(s, paragraph) ==
    IF s.game_mode # None THEN ready_up(start_mode(s, s.game_mode, paragraph)) ELSE s

new_paragraph(s, paragraph) ==
    IF s.game_mode # None THEN start_mode(s, s.game_mode, paragraph) ELSE s


-----------------------------------------------------------------------------
(* Keys *)

\* DeleteLast that also takes the mark of the deleted offset from the mistake set
DeleteLastAndMark(s) ==
    IF s.typed_text # <<>>
    THEN [s EXCEPT !.typed_text = SubSeq(@, 1, Len(@) - 1),
                   !.mistake_positions = @ \ {Len(s.typed_text) - 1}]
    ELSE s

\* on_key lines 1505-1507: backspace in IN_TEST
DeleteLast(s) ==
    IF s.typed_text # <<>>
    THEN [s EXCEPT !.typed_text = SubSeq(@, 1, Len(@) - 1)]
    ELSE s

run_worker(s, char) == [s EXCEPT !.workers = Append(@, char)]

\* keys whose event.key is one character; none of the keys here is in char_map
CharKeys == {"a", "1", "2", "3", "n", "r", "m"}
Keys == CharKeys \cup {"space", "enter", "escape", "backspace"}

\* on_key.  "tab" (theme), "u" and "s" (dialogs) are not among the keys; "escape"
\* in MENU ends the process and is left as no change.  USER_SETUP and USER_SELECT
\* have no branch.
on_key(s, key, choice) ==
    IF s.game_state = "MENU"
    THEN IF key = "1" THEN start_mode(s, "30sec", choice)
         ELSE IF key = "2" THEN start_mode(s, "30word", choice)
         ELSE IF key = "3" THEN start_mode(s, "unlimited", choice)
         ELSE IF key = "enter" /\ s.game_mode # None THEN ready_up(s)
         ELSE s
    ELSE IF s.game_state = "READY"
    THEN IF key = "enter" THEN cancel_ready(s)
         ELSE IF key = "space"
              THEN run_worker([s EXCEPT !.game_state = "IN_TEST"], " ")
         ELSE IF key \in CharKeys
              THEN run_worker([s EXCEPT !.game_state = "IN_TEST"], key)
         ELSE s
    ELSE IF s.game_state = "IN_TEST"
    THEN IF key = "escape" THEN cancel_test(s)
         ELSE IF key = "backspace" THEN DeleteLast(s)
         ELSE IF key = "space" THEN run_worker(s, " ")
         ELSE IF key \in CharKeys THEN run_worker(s, key)
         ELSE s
    ELSE IF s.game_state = "COMPLETE"
    THEN IF key = "n" THEN new_paragraph(s, choice)
         ELSE IF key = "r" THEN restart(s)
         ELSE IF key = "m" \/ key = "escape" THEN return_to_menu(s)
         ELSE s
    ELSE s

-----------------------------------------------------------------------------
(* Startup: on_mount has loaded users.json and startup_flow has routed *)

\* the built-in texts, cut down to one phrase and one two-word paragraph
PHRASES == {<<"a">>}
PARAGRAPHS == {WordsOfA(2)}

\* a texts.json holding an object with a phrase list and the paragraphs
TextsJson(paragraphs) ==
    [kind |-> "object", phrases |-> {<<"a", " ", "a">>}, paragraphs |-> paragraphs]

\* The conditions of texts.json: missing; open or read failing with an IOError;
\* bytes that do not decode as text; text that is not JSON; JSON that is not
\* an object (a list, null, a number); an object, a missing key read as [].
TextFiles ==
    [kind : {"missing", "io_error", "not_text", "invalid_json", "not_object"},
     phrases : {{}}, paragraphs : {{}}]
    \cup [kind : {"object"}, phrases : {{}, {<<"a", " ", "a">>}},
          paragraphs : {{}, {WordsOfA(3)}}]

\* load_texts.  The except clause names JSONDecodeError, IOError and KeyError:
\* the UnicodeDecodeError of json.load on undecodable bytes and the
\* AttributeError of data.get on a value that is not an object leave the
\* method, and on_mount with it, with both lists as they were.
load_texts(s, file) ==
    IF file.kind = "not_text" THEN [s EXCEPT !.raised = "UnicodeDecodeError"]
    ELSE IF file.kind = "not_object" THEN [s EXCEPT !.raised = "AttributeError"]
    ELSE IF file.kind = "object" /\ file.phrases # {} /\ file.paragraphs # {}
         THEN [s EXCEPT !.phrases = file.phrases, !.paragraphs = file.paragraphs]
         ELSE [s EXCEPT !.phrases = PHRASES, !.paragraphs = PARAGRAPHS]

\* load_user_data
load_user_data(s, file) ==
    [s EXCEPT !.users_file = file, !.current_user = file.current_user,
              !.user_data = file.users]

UserFiles ==
    {[current_user |-> None, users |-> <<>>]}
    \cup {[current_user |-> c, users |-> [u \in Users |-> NewAggregate]] :
             c \in Users \cup {None}}

startup_flow(s) ==
    IF DOMAIN s.user_data = {} THEN [s EXCEPT !.game_state = "USER_SETUP"]
    ELSE IF s.current_user = None THEN [s EXCEPT !.game_state = "USER_SELECT"]
    ELSE [s EXCEPT !.game_state = "MENU"]

\* force_create_first_user once the username screen returns a name
force_create_first_user(s, username, io_ok) ==
    LET s1 == [create_user(s, username) EXCEPT !.current_user = username]
    IN [save_user_data(s1, io_ok) EXCEPT !.game_state = "MENU"]

\* force_user_selection once the user menu returns a user
force_user_selection(s, user, io_ok) ==
    [save_user_data([s EXCEPT !.current_user = user], io_ok) EXCEPT !.game_state = "MENU"]

-----------------------------------------------------------------------------
(* The state machine *)

\* whether a write of users.json succeeds
IoOutcomes == {TRUE}

Envs == [now : {now}, choice : self.paragraphs, io_ok : IoOutcomes]

Init ==
    /\ self \in {startup_flow(load_user_data(load_texts(Fresh, TextsJson(c)), f)) :
                     c \in Corpora, f \in UserFiles}
    /\ now = 1
    /\ detours = 0

UsernameEntered ==
    /\ self.game_state = "USER_SETUP"
    /\ \E u \in Users, io \in IoOutcomes : self' = force_create_first_user(self, u, io)
    /\ UNCHANGED <<now, detours>>

UserSelected ==
    /\ self.game_state = "USER_SELECT"
    /\ \E u \in DOMAIN self.user_data, io \in IoOutcomes :
          self' = force_user_selection(self, u, io)
    /\ UNCHANGED <<now, detours>>

Typing == self.game_state \in {"READY", "IN_TEST"}

\* the character the typist is due to press next: the target character after
\* those typed and those still queued; past the end of the line, the space
Due(key) ==
    LET pos == Len(self.typed_text) + Len(self.workers) + 1
    IN IF pos <= Len(self.target_text)
       THEN (IF key = "space" THEN " " ELSE key) = self.target_text[pos]
       ELSE key = "space"

\* a key that ends the attempt under way or starts another one
Resets(key) ==
    \/ self.game_state = "MENU" /\ key \in {"1", "2", "3"}
    \/ self.game_state = "READY" /\ key = "enter"
    \/ self.game_state = "IN_TEST" /\ key = "escape"
    \/ self.game_state = "COMPLETE" /\ key \in {"n", "r", "m", "escape"}

\* the user types no more characters into the lines of one session than the
\* longest paragraph has, plus MaxExtraChars
CharCap ==
    MaxExtraChars + (CHOOSE n \in {Len(p) : p \in self.paragraphs} :
                        \A p \in self.paragraphs : Len(p) <= n)

\* an off-target key or a backspace while typing
Slip(key) == Typing /\ (key = "backspace" \/ (key \in {"a", "space"} /\ ~Due(key)))

\* the user slips only within the first MaxSlipOffset characters of a line
InSlipZone == Len(self.typed_text) + Len(self.workers) < MaxSlipOffset

\* A key press.  The user presses the command keys of the state, and while
\* typing the keys a, space and backspace.  Slips and resets are detours from
\* typing one test straight through; the user makes at most MaxDetours of them.
KeyPress ==
    \E key \in Keys, choice \in self.paragraphs :
        /\ key \in {"1", "2", "3"} => self.game_state = "MENU"
        /\ key \in {"n", "r", "m"} => self.game_state = "COMPLETE"
        /\ (Typing /\ key \in CharKeys \cup {"space"}) =>
              /\ Len(self.workers) < MaxQueue
              /\ Len(self.typed_text) + Len(self.workers) < Len(self.target_text) =>
                    self.total_chars_typed + Len(self.workers) < CharCap
        /\ Slip(key) => InSlipZone
        /\ IF Resets(key) \/ Slip(key)
           THEN detours < MaxDetours /\ detours' = detours + 1
           ELSE detours' = detours
        /\ self' = on_key(self, key, choice)
        /\ now' = now

\* the oldest pending handle_character coroutine runs
RunWorker ==
    /\ self.workers # <<>>
    /\ \E env \in Envs :
          self' = handle_character([self EXCEPT !.workers = Tail(@)],
                                   Head(self.workers), env)
    /\ UNCHANGED <<now, detours>>

CountdownTick ==
    /\ self.intervals["update_countdown"] > 0
    /\ \E env \in Envs : self' = update_countdown(self, env)
    /\ UNCHANGED <<now, detours>>

TimerTick ==
    /\ self.intervals["update_timer"] > 0
    /\ \E env \in Envs : self' = update_timer(self, env)
    /\ UNCHANGED <<now, detours>>

Advance ==
    /\ now + TimeStep <= MaxTime
    /\ now' = now + TimeStep
    /\ UNCHANGED <<self, detours>>

Next ==
    \/ UsernameEntered
    \/ UserSelected
    \/ KeyPress
    \/ RunWorker
    \/ CountdownTick
    \/ TimerTick
    \/ Advance

Spec == Init /\ [][Next]_vars

\* a key press of a user who makes at most MaxFairDetours detours
FairKeyPress == KeyPress /\ detours' <= MaxFairDetours

FairNext ==
    \/ UsernameEntered
    \/ UserSelected
    \/ FairKeyPress
    \/ RunWorker
    \/ CountdownTick
    \/ TimerTick
    \/ Advance

\* The scheduling the framework and the clock provide: a registered countdown
\* timer keeps firing and time keeps passing (up to MaxTime).  No key press is
\* ever required.
FairSpec ==
    /\ Init /\ [][FairNext]_vars
    /\ WF_vars(CountdownTick) /\ WF_vars(Advance)


\* A key press of a user who chooses a mode once and types that one test: no
\* cancel, no retry, no new paragraph, no return to the menu, and at most
\* MaxSlips slips.
SlipKeyPress ==
    \E key \in Keys, choice \in self.paragraphs :
        /\ key \in {"1", "2", "3"} => self.game_state = "MENU"
        /\ key \in {"n", "r", "m"} => self.game_state = "COMPLETE"
        /\ (Typing /\ key \in CharKeys \cup {"space"}) =>
              /\ Len(self.workers) < MaxQueue
              /\ Len(self.typed_text) + Len(self.workers) < Len(self.target_text) =>
                    self.total_chars_typed + Len(self.workers) < CharCap
        /\ Slip(key) => InSlipZone
        /\ Resets(key) => self.game_mode = None
        /\ IF Slip(key)
           THEN detours < MaxSlips /\ detours' = detours + 1
           ELSE detours' = detours
        /\ self' = on_key(self, key, choice)
        /\ now' = now

SlipNext ==
    \/ UsernameEntered
    \/ UserSelected
    \/ SlipKeyPress
    \/ RunWorker
    \/ CountdownTick
    \/ TimerTick
    \/ Advance

SlipSpec == Init /\ [][SlipNext]_vars

\* time passes, up to two periods of 30 seconds
LongAdvance ==
    /\ now + TimeStep <= MaxLongTime
    /\ now' = now + TimeStep
    /\ UNCHANGED <<self, detours>>

LongNext ==
    \/ UsernameEntered
    \/ UserSelected
    \/ KeyPress
    \/ RunWorker
    \/ CountdownTick
    \/ TimerTick
    \/ LongAdvance

\* Spec with a clock long enough for the countdown to run out twice
LongSpec == Init /\ [][LongNext]_vars

\* texts.json holding one paragraph of thirty words: three ten-word lines
WordsInit ==
    /\ self \in {startup_flow(load_user_data(load_texts(Fresh, TextsJson({WordsOfA(SprintWords)})), f)) :
                     f \in UserFiles}
    /\ now = 1
    /\ detours = 0

\* One test of the thirty-word paragraph, typed by the user of SlipSpec
WordsSpec == WordsInit /\ [][SlipNext]_vars

\* the environment of a handler when a write of users.json may fail
SaveEnvs == [now : {now}, choice : self.paragraphs, io_ok : BOOLEAN]

SaveRunWorker ==
    /\ self.workers # <<>>
    /\ \E env \in SaveEnvs :
          self' = handle_character([self EXCEPT !.workers = Tail(@)],
                                   Head(self.workers), env)
    /\ UNCHANGED <<now, detours>>

SaveCountdownTick ==
    /\ self.intervals["update_countdown"] > 0
    /\ \E env \in SaveEnvs : self' = update_countdown(self, env)
    /\ UNCHANGED <<now, detours>>

SaveNext ==
    \/ UsernameEntered
    \/ UserSelected
    \/ KeyPress
    \/ SaveRunWorker
    \/ SaveCountdownTick
    \/ TimerTick
    \/ Advance

\* Spec with writes of users.json that may fail when a test completes
SaveSpec == Init /\ [][SaveNext]_vars

\* the paragraphs passed to split_into_lines: the strings of at most
\* MaxParagraphLen characters over two letters and the space
Paragraphs == UNION {[1..n -> {"a", "b", " "}] : n \in 0..MaxParagraphLen}

\* A call of split_into_lines on its own: self holds the arguments and, once
\* the call has returned, the list of lines
SplitInit ==
    /\ self \in [paragraph : Paragraphs, max : 1..MaxLineWords,
                  returned : {FALSE}, lines : {<<>>}]
    /\ now = 1
    /\ detours = 0

SplitCall ==
    /\ ~self.returned
    /\ self' = [self EXCEPT !.returned = TRUE,
                            !.lines = split_into_lines(self.paragraph, self.max)]
    /\ UNCHANGED <<now, detours>>

SplitSpec == SplitInit /\ [][SplitCall]_vars

\* on_mount: an exception of load_texts ends it before users.json is read
on_mount(texts_file, users_file) ==
    LET s1 == load_texts(Fresh, texts_file)
    IN IF s1.raised # None THEN s1
       ELSE startup_flow(load_user_data(s1, users_file))

TextsInit ==
    /\ self \in {on_mount(tf, uf) : tf \in TextFiles, uf \in UserFiles}
    /\ now = 1
    /\ detours = 0

\* Spec started from every condition of texts.json
TextsSpec == TextsInit /\ [][Next]_vars

\* the aggregate of a user with one earlier test: 2 WPM at 90.0 % accuracy
PastAggregate ==
    [tests_completed |-> 1, total_wpm |-> 2, best_wpm |-> 2,
     total_accuracy |-> 900, best_accuracy |-> 900]

\* users.json as load_user_data accepts it: the files of UserFiles, and files
\* of earlier runs whose current user has an aggregate with a result in it, or
\* has none while another user has one
StatsFiles ==
    UserFiles
    \cup {[current_user |-> "ann", users |-> [u \in {"ann", "bob"} |-> PastAggregate]],
          [current_user |-> "ann", users |-> [u \in {"bob"} |-> PastAggregate]]}

StatsInit ==
    /\ self \in {startup_flow(load_user_data(load_texts(Fresh, TextsJson(c)), f)) :
                     c \in Corpora, f \in StatsFiles}
    /\ now = 1
    /\ detours = 0

\* Spec started from the users files of StatsFiles
StatsSpec == StatsInit /\ [][Next]_vars

-----------------------------------------------------------------------------
(* Vocabulary of the properties *)

TimerOf(mode) == IF mode = "30sec" THEN "update_countdown" ELSE "update_timer"

NumTimers == self.intervals["update_countdown"] + self.intervals["update_timer"]

TestsCompleted(s) ==
    IF s.current_user \in DOMAIN s.user_data
    THEN s.user_data[s.current_user].tests_completed ELSE 0

\* the counters, streaks, mistake set and history of the session
Counters(s) ==
    <<s.total_chars_typed, s.mistakes, s.total_words_typed, s.lines_completed,
      s.current_streak, s.best_streak, s.mistake_positions,
      s.completed_lines_history>>

\* the session as start_mode leaves it, apart from the paragraph
SessionIsFresh(s) ==
    /\ s.typed_text = <<>> /\ s.current_line_index = 0
    /\ Counters(s) = <<0, 0, 0, 0, 0, 0, {}, <<>>>>

OnLastLine(s) == s.current_line_index = Len(s.current_lines) - 1

LineIsFull(s) == Len(s.typed_text) = Len(s.target_text)

\* the history entries that h1 has beyond h0 and that hold a fully typed line
NewFullLines(h0, h1) ==
    {i \in (Len(h0) + 1)..Len(h1) : Len(h1[i][2]) = Len(h1[i][1])}

-----------------------------------------------------------------------------
(* C1: a countdown tick left over from an earlier TimedSprint session changes *)
(* nothing of a later WordSprint or Unlimited session: not its state, its     *)
(* completion status, its remaining time, its counters or the user aggregate. *)
C1_StaleCountdownTickIsNoOp ==
    [][(self.game_mode \in {"30word", "unlimited"} /\ CountdownTick) =>
          /\ self'.game_state = self.game_state
          /\ self'.completed = self.completed
          /\ self'.countdown_remaining = self.countdown_remaining
          /\ Counters(self') = Counters(self)
          /\ self'.user_data = self.user_data]_vars

(* C2: cancelling from Running (IN_TEST to MENU) clears the mode and leaves   *)
(* every counter, the streaks, the mistake set, the history and the line      *)
(* index at their initial values.                                             *)
C2_CancelDiscardsSession ==
    [][(self.game_state = "IN_TEST" /\ self'.game_state = "MENU") =>
          (self'.game_mode = None /\ SessionIsFresh(self'))]_vars

(* C3: outside Running no interval timer of a session is scheduled, and while *)
(* Running at most one is.                                                    *)
C3_TimersStoppedOutsideRunning ==
    IF self.game_state = "IN_TEST" THEN NumTimers <= 1 ELSE NumTimers = 0

(* C4: an Unlimited session is Complete only with the last line of the        *)
(* paragraph fully typed.                                                     *)
C4_UnlimitedCompletesOnLastLineOnly ==
    (self.game_mode = "unlimited" /\ self.game_state = "COMPLETE") =>
        (OnLastLine(self) /\ LineIsFull(self))

(* C5: a WordSprint session is Complete only with at least 30 words counted,  *)
(* and with fewer than 30 plus one line's words (10).                         *)
C5_WordSprintCompletesAtTarget ==
    (self.game_mode = "30word" /\ self.game_state = "COMPLETE") =>
        /\ self.total_words_typed >= SprintWords
        /\ self.total_words_typed < SprintWords + max_words_per_line

(* C6: in WordSprint, completing the last line of the paragraph with the word *)
(* target not reached draws a paragraph and continues: line index 0, typed    *)
(* text and mistake set empty, counters kept.                                 *)
C6_WordSprintDrawsFreshParagraph ==
    [][(/\ self.game_mode = "30word"
        /\ OnLastLine(self)
        /\ self'.lines_completed = self.lines_completed + 1
        /\ self'.total_words_typed < SprintWords) =>
          /\ self'.current_line_index = 0
          /\ self'.typed_text = <<>>
          /\ self'.mistake_positions = {}
          /\ self'.current_paragraph \in self.paragraphs
          /\ self'.total_chars_typed >= self.total_chars_typed]_vars

(* C7: a step adds at most one fully typed line to the history, and only the  *)
(* step that types the character filling the line does, counting its words    *)
(* once.                                                                       *)
C7_OneHistoryEntryPerLine ==
    [][LET h0 == self.completed_lines_history
           h1 == self'.completed_lines_history
           new == NewFullLines(h0, h1)
       IN (Len(h1) > Len(h0) /\ new # {}) =>
             /\ Cardinality(new) = 1
             /\ self'.total_chars_typed = self.total_chars_typed + 1
             /\ \A i \in new :
                   self'.total_words_typed =
                      self.total_words_typed + Len(split(h1[i][1]))]_vars

(* C8: the user aggregate changes only on a transition into COMPLETE, and     *)
(* then tests_completed grows by exactly 1.                                   *)
C8_AggregateUpdatedOncePerTest ==
    [][(self.game_state # "USER_SETUP" /\ self.game_state # "USER_SELECT"
        /\ self'.user_data # self.user_data) =>
          /\ self.game_state # "COMPLETE" /\ self'.game_state = "COMPLETE"
          /\ TestsCompleted(self') = TestsCompleted(self) + 1]_vars

(* C9: a character handler that runs while the state is USER_SETUP,           *)
(* USER_SELECT, MENU or COMPLETE changes neither the typed text nor a         *)
(* counter, the mistake set, a streak, the start time or the history.         *)
C9_CharacterRejectedOutsideReadyRunning ==
    [][(self.game_state \notin {"READY", "IN_TEST"} /\ RunWorker) =>
          /\ self'.typed_text = self.typed_text
          /\ self'.start_time = self.start_time
          /\ Counters(self') = Counters(self)]_vars

(* C10 as stated: whenever the state is Running, and the character that led  *)
(* there has been handled, the start time is set and the timer of the mode is *)
(* registered.                                                                *)
C10_RunningHasTimer ==
    (self.game_state = "IN_TEST" /\ self.workers = <<>>) =>
        (self.start_time > 0 /\ self.intervals[TimerOf(self.game_mode)] > 0)

(* C10 amended: whenever the state is Running and the typed text is not empty *)
(* the start time is set and the timer of the mode is registered.             *)
C10_RunningWithTextHasTimer ==
    (self.game_state = "IN_TEST" /\ self.typed_text # <<>>) =>
        (self.start_time > 0 /\ self.intervals[TimerOf(self.game_mode)] > 0)

\* a character typed in READY has been handled: Running, with the clock started
\* and the one timer of the mode registered
C10_Witness ==
    /\ self.game_state = "IN_TEST" /\ self.typed_text # <<>>
    /\ self.start_time > 0 /\ self.intervals[TimerOf(self.game_mode)] = 1

(* C11: a space handled while the typed text is empty and the target line     *)
(* does not begin with a space is discarded: the typed text, the character    *)
(* and mistake counts, the mistake set, both streaks, the start time and the  *)
(* history stay as they were.                                                  *)
C11_LeadingSpaceDiscarded ==
    [][(/\ RunWorker
        /\ Head(self.workers) = " "
        /\ self.typed_text = <<>>
        /\ self.target_text # <<>> /\ self.target_text[1] # " ") =>
          /\ self'.typed_text = <<>>
          /\ self'.start_time = self.start_time
          /\ self'.intervals = self.intervals
          /\ Counters(self') = Counters(self)]_vars

\* a space pressed in READY has been handled and discarded: Running with no
\* character counted and the clock not started
C11_Witness ==
    /\ self.game_state = "IN_TEST" /\ self.workers = <<>>
    /\ self.typed_text = <<>> /\ self.total_chars_typed = 0
    /\ self.start_time = 0 /\ NumTimers = 0

(* C12: in the 30sec mode a step that completes the last line of the paragraph *)
(* draws a paragraph and goes on (line index 0, typed text and mistake set     *)
(* empty, state kept, counters kept or grown, the line added to the history);  *)
(* and a step that takes a 30sec session to COMPLETE is a countdown tick that  *)
(* finds the 30 seconds elapsed: it handles no character, completes no line    *)
(* and leaves countdown_remaining at 0.                                        *)
C12_SprintContinuesUntilCountdown ==
    [][/\ (/\ self.game_mode = "30sec"
            /\ OnLastLine(self)
            /\ self'.lines_completed = self.lines_completed + 1) =>
              /\ self'.current_line_index = 0
              /\ self'.typed_text = <<>>
              /\ self'.mistake_positions = {}
              /\ self'.current_paragraph \in self.paragraphs
              /\ self'.target_text = self'.current_lines[1]
              /\ self'.game_state = self.game_state
              /\ self'.total_chars_typed >= self.total_chars_typed
              /\ self'.mistakes >= self.mistakes
              /\ self'.best_streak >= self.best_streak
              /\ self'.total_words_typed =
                    self.total_words_typed + Len(split(self.target_text))
              /\ Len(self'.completed_lines_history) =
                    Len(self.completed_lines_history) + 1
       /\ (/\ self.game_mode = "30sec"
            /\ self.game_state # "COMPLETE"
            /\ self'.game_state = "COMPLETE") =>
              /\ self.intervals["update_countdown"] > 0
              /\ self.start_time > 0 /\ now - self.start_time >= SprintSeconds
              /\ self'.countdown_remaining = 0
              /\ self'.workers = self.workers
              /\ self'.lines_completed = self.lines_completed
              /\ self'.total_chars_typed = self.total_chars_typed]_vars

\* a 30sec session that completed a one-line paragraph, went on with a drawn
\* paragraph and was ended by the countdown
C12_Witness ==
    /\ self.game_mode = "30sec" /\ self.game_state = "COMPLETE"
    /\ self.lines_completed >= 1 /\ Len(self.current_lines) = 1
    /\ self.current_line_index = 0
    /\ self.countdown_remaining = 0

ClockHasRoom(t) == t + SprintSeconds <= MaxTime

(* C14 as stated: a 30sec session that is Running, the key that led there     *)
(* handled, eventually leaves Running (to COMPLETE, or to MENU when cancelled) *)
(* under fair ticks and advancing time, unless a further character is         *)
(* pressed.  A session whose start falls too late for the clock of the model  *)
(* is left out.                                                               *)
C14_RunningSprintEnds ==
    (self.game_mode = "30sec" /\ self.game_state = "IN_TEST" /\ self.workers = <<>>)
        ~> \/ self.game_state # "IN_TEST"
           \/ self.workers # <<>>
           \/ ~ClockHasRoom(self.start_time)

(* C14 amended: a 30sec session that is Running with its clock started        *)
(* eventually leaves Running under fair ticks and advancing time, with no     *)
(* further key needed.                                                        *)
C14_StartedSprintEnds ==
    (/\ self.game_mode = "30sec" /\ self.game_state = "IN_TEST"
     /\ self.start_time > 0 /\ ClockHasRoom(self.start_time))
        ~> (self.game_state # "IN_TEST")

\* a 30sec session started at time 1 and ended by the countdown at time 31,
\* with its last character still in the typed text
C14_Witness ==
    /\ self.game_mode = "30sec" /\ self.game_state = "COMPLETE"
    /\ self.start_time = 1 /\ now = 1 + SprintSeconds
    /\ self.typed_text # <<>> /\ self.workers = <<>>
    /\ self.lines_completed = 0

(* C15: a backspace removes the last character of the typed text when there   *)
(* is one and the state is IN_TEST, and changes nothing else: not the         *)
(* character, mistake or word counts, the streaks, the mistake set, the line  *)
(* index, the target line or the history.  On an empty typed text it changes  *)
(* nothing at all.                                                            *)
C15_BackspaceRemovesLastOnly ==
    [][(\E c \in self.paragraphs : self' = on_key(self, "backspace", c)) =>
          /\ IF self.game_state = "IN_TEST" /\ self.typed_text # <<>>
             THEN self'.typed_text =
                      SubSeq(self.typed_text, 1, Len(self.typed_text) - 1)
             ELSE self'.typed_text = self.typed_text
          /\ Counters(self') = Counters(self)
          /\ self'.current_line_index = self.current_line_index
          /\ self'.target_text = self.target_text
          /\ self'.game_state = self.game_state
          /\ self'.start_time = self.start_time]_vars

\* the one character typed in the session has been deleted with backspace
C15_Witness ==
    /\ self.game_state = "IN_TEST" /\ self.workers = <<>>
    /\ self.typed_text = <<>> /\ self.total_chars_typed = 1
    /\ self.lines_completed = 0 /\ detours = 2

\* the step starts a session anew: every counter is back at 0
SessionReset == self'.total_chars_typed = 0 /\ self'.lines_completed = 0

(* C16: the mistake count grows by at most 1 in a step, and only when the     *)
(* offset typed is not yet in the mistake set, which then gains that offset;  *)
(* and an offset leaves the mistake set only when the set is emptied by a     *)
(* line advance or a new session.  So typing, deleting and retyping at one    *)
(* offset of a line counts at most one mistake for it.                        *)
C16_MistakeCountedOncePerOffset ==
    [][/\ self'.mistakes <= self.mistakes + 1
       /\ self'.mistakes = self.mistakes + 1 =>
             /\ Len(self.typed_text) \notin self.mistake_positions
             /\ \/ self'.mistake_positions =
                      self.mistake_positions \cup {Len(self.typed_text)}
                \/ self'.lines_completed = self.lines_completed + 1
       /\ self'.mistakes < self.mistakes => SessionReset
       /\ \/ self.mistake_positions \subseteq self'.mistake_positions
          \/ /\ self'.mistake_positions = {}
             /\ self'.lines_completed = self.lines_completed + 1 \/ SessionReset
      ]_vars

\* a wrong character at offset 1, deleted and typed wrong again: three
\* characters typed, one mistake counted
C16_Witness ==
    /\ self.typed_text = <<"a", "a">> /\ self.target_text[2] = " "
    /\ self.total_chars_typed = 3 /\ self.lines_completed = 0
    /\ self.mistakes = 1 /\ self.mistake_positions = {1}

\* the step handles a character that is appended to the typed text
CharAppended == self'.total_chars_typed = self.total_chars_typed + 1

\* the character appended by the step differs from the target at its offset
CharMismatched ==
    LET k == Len(self.typed_text) + 1
    IN Head(self.workers) # self.target_text[k]

(* C17: best_streak is at least current_streak in every state and does not    *)
(* decrease within a session; a step that appends a mismatched character      *)
(* leaves current_streak at 0 and a step that appends a matched character     *)
(* adds exactly 1 to it; no other step changes a streak within a session.     *)
C17_StreakMonotonic ==
    [][/\ self.best_streak >= self.current_streak
       /\ self'.best_streak >= self'.current_streak
       /\ self'.best_streak >= self.best_streak \/ SessionReset
       /\ IF CharAppended
          THEN IF CharMismatched
               THEN self'.current_streak = 0
               ELSE self'.current_streak = self.current_streak + 1
          ELSE \/ self'.current_streak = self.current_streak
               \/ SessionReset /\ self'.current_streak = 0
      ]_vars

\* two matched characters and a mismatched one: the best streak is 2 and the
\* current one 0
C17_Witness ==
    /\ self.best_streak = 2 /\ self.current_streak = 0
    /\ self.mistakes = 1 /\ self.total_chars_typed = 3
    /\ self.typed_text = <<"a", " ", " ">>

(* C18: in every state the mistake count is at most the character count, the  *)
(* final and the live accuracy lie between 0 and 100 percent, the elapsed     *)
(* time, the live WPM and the final WPM the state would give are not          *)
(* negative, and neither is a WPM or accuracy recorded in a user aggregate.   *)
C18_MetricsWithinBounds ==
    /\ 0 <= self.mistakes /\ self.mistakes <= self.total_chars_typed
    /\ self.accuracy \in 0..1000
    /\ self.live_accuracy \in 0..1000
    /\ self.elapsed_time >= 0
    /\ self.live_wpm >= 0
    /\ FinalWpm(self.game_mode, self.total_chars_typed, self.elapsed_time) >= 0
    /\ \A u \in DOMAIN self.user_data :
          /\ self.user_data[u].total_wpm >= 0
          /\ self.user_data[u].best_wpm >= 0
          /\ self.user_data[u].best_accuracy \in 0..1000
          /\ self.user_data[u].total_accuracy >= 0

\* a test completed with one mistake: final and live accuracy strictly between
\* 0 and 100 percent, recorded in the aggregate
C18_Witness ==
    /\ self.game_state = "COMPLETE" /\ self.mistakes = 1
    /\ self.accuracy > 0 /\ self.accuracy < 1000
    /\ self.live_accuracy > 0 /\ self.live_accuracy < 1000
    /\ TestsCompleted(self) = 1
    /\ self.user_data[self.current_user].best_accuracy = self.accuracy

(* C19: whenever a mode is chosen, the line index is a valid index of the     *)
(* lines of the paragraph, the target text is the line at that index, and the *)
(* typed text is no longer than that line.                                    *)
C19_LineIndexAndBufferWithinLine ==
    self.game_mode # None =>
        /\ 0 <= self.current_line_index
        /\ self.current_line_index < Len(self.current_lines)
        /\ self.target_text = self.current_lines[self.current_line_index + 1]
        /\ Len(self.typed_text) <= Len(self.target_text)

\* the second line of a paragraph is the target and is typed in full, and a
\* further key has been handled
C19_Witness ==
    /\ self.game_mode # None /\ self.current_line_index = 1
    /\ Len(self.current_lines) = 2
    /\ self.typed_text = self.target_text
    /\ self.lines_completed > 2 /\ self.workers = <<>>

\* the offsets of the target line, counted from 0
OffsetsOfLine(s) == 0..(Len(s.target_text) - 1)

\* the step moves to another line: the next line of the paragraph or the first
\* line of a paragraph drawn or chosen
LineChanged ==
    \/ self'.current_line_index # self.current_line_index
    \/ self'.current_paragraph # self.current_paragraph
    \/ self'.target_text # self.target_text
    \/ self'.lines_completed > self.lines_completed /\ self'.typed_text = <<>>

(* C20: in every state the mistake set holds offsets of the target line only, *)
(* and it is empty right after every step that advances the line or changes   *)
(* the paragraph.                                                             *)
C20_MistakePositionsWithinLine ==
    [][/\ self.mistake_positions \subseteq OffsetsOfLine(self)
       /\ self'.mistake_positions \subseteq OffsetsOfLine(self')
       /\ LineChanged => self'.mistake_positions = {}]_vars

\* the first line was completed with a mistake in it and the second line has
\* just become the target: the mistake set is empty again
C20_Witness ==
    /\ self.current_line_index = 1 /\ self.lines_completed = 1
    /\ self.typed_text = <<>> /\ self.mistake_positions = {}
    /\ self.mistakes = 1
    /\ self.completed_lines_history[1][3] = {1}

(* C21: game_mode changes only by a mode selection in MENU, which stays in    *)
(* MENU, or by being cleared on the return from COMPLETE to MENU; no step     *)
(* from READY or IN_TEST changes it, and no step from COMPLETE changes it to  *)
(* another mode.                                                              *)
C21_ModeChangesOnlyInMenu ==
    [][self'.game_mode # self.game_mode =>
          \/ /\ self.game_state = "MENU" /\ self'.game_state = "MENU"
             /\ self'.game_mode \in {"30sec", "30word", "unlimited"}
          \/ /\ self.game_state = "COMPLETE" /\ self'.game_state = "MENU"
             /\ self'.game_mode = None]_vars

\* a test was completed under a mode and the return to the menu has cleared it
C21_Witness ==
    /\ self.game_state = "MENU" /\ self.game_mode = None
    /\ TestsCompleted(self) = 1

\* the paragraph, its lines and the line index of the session
Text(s) == <<s.current_paragraph, s.current_lines, s.current_line_index, s.target_text>>

(* C22: Enter in MENU with no mode chosen changes nothing; with a mode chosen *)
(* it moves to READY and changes nothing else.  Enter in READY moves to MENU  *)
(* with the typed text empty and leaves the mode, the paragraph, its lines,   *)
(* the line index and every counter as they were.                             *)
C22_ConfirmAndCancelKeepSession ==
    [][(/\ self.game_state \in {"MENU", "READY"}
        /\ \E c \in self.paragraphs : self' = on_key(self, "enter", c)) =>
          IF self.game_state = "MENU" /\ self.game_mode = None
          THEN self' = self
          ELSE /\ self'.game_state = (IF self.game_state = "MENU" THEN "READY" ELSE "MENU")
               /\ self'.game_mode = self.game_mode
               /\ Text(self') = Text(self)
               /\ Counters(self') = Counters(self)
               /\ IF self.game_state = "MENU"
                  THEN self' = [self EXCEPT !.game_state = "READY"]
                  ELSE self'.typed_text = <<>>]_vars

\* READY entered with Enter from a session with a character counted (its test
\* was cancelled): the counters are kept
C22_Witness ==
    /\ self.game_state = "READY" /\ self.game_mode # None
    /\ self.total_chars_typed >= 1 /\ self.typed_text = <<>>
    /\ self.workers = <<>>

\* the timing of the session as start_mode leaves it
TimingIsFresh(s) ==
    /\ s.start_time = 0 /\ s.elapsed_time = 0
    /\ s.countdown_remaining = SprintSeconds /\ ~s.completed

(* C23: the key r in COMPLETE moves to READY with the mode and the paragraph  *)
(* kept, the lines split from that paragraph again, the first line as target, *)
(* and every counter, the streaks, the mistake set, the history and the       *)
(* timing back at their initial values.                                       *)
C23_RetryRestartsSameParagraph ==
    [][(/\ self.game_state = "COMPLETE"
        /\ \E c \in self.paragraphs : self' = on_key(self, "r", c)) =>
          /\ self'.game_state = "READY"
          /\ self'.game_mode = self.game_mode
          /\ self'.current_paragraph = self.current_paragraph
          /\ self'.current_lines =
                split_into_lines(self.current_paragraph, max_words_per_line)
          /\ self'.target_text = self'.current_lines[1]
          /\ SessionIsFresh(self')
          /\ TimingIsFresh(self')]_vars

(* C24: the key n in COMPLETE moves to MENU with the mode kept and a session  *)
(* made anew: a paragraph of the library, its first line as target, and every *)
(* counter, the streaks, the mistake set, the history and the timing at their *)
(* initial values.                                                            *)
C24_NewDrawsParagraphInMenu ==
    [][(/\ self.game_state = "COMPLETE"
        /\ \E c \in self.paragraphs : self' = on_key(self, "n", c)) =>
          /\ self'.game_state = "MENU"
          /\ self'.game_mode = self.game_mode /\ self'.game_mode # None
          /\ self'.current_paragraph \in self.paragraphs
          /\ self'.current_lines =
                split_into_lines(self'.current_paragraph, max_words_per_line)
          /\ self'.target_text = self'.current_lines[1]
          /\ SessionIsFresh(self')
          /\ TimingIsFresh(self')]_vars

(* C25: the key m or Escape in COMPLETE moves to MENU with no mode chosen, no *)
(* lines and no paragraph, the line index 0, and every counter, the streaks,  *)
(* the mistake set, the history, the final and live metrics and the timing at *)
(* their initial values.                                                      *)
C25_ReturnToMenuResetsAll ==
    [][(/\ self.game_state = "COMPLETE"
        /\ \E c \in self.paragraphs, k \in {"m", "escape"} : self' = on_key(self, k, c)) =>
          /\ self'.game_state = "MENU"
          /\ self'.game_mode = None
          /\ self'.current_lines = <<>> /\ self'.current_paragraph = <<>>
          /\ SessionIsFresh(self')
          /\ TimingIsFresh(self')
          /\ self'.accuracy = 0 /\ self'.live_wpm = 0 /\ self'.live_accuracy = 0
      ]_vars

\* a completed test was left for the menu: no mode, no lines, counters at 0,
\* the result kept in the aggregate
C25_Witness ==
    /\ self.game_state = "MENU" /\ self.game_mode = None
    /\ self.current_lines = <<>> /\ self.total_chars_typed = 0
    /\ self.completed_lines_history = <<>>
    /\ TestsCompleted(self) = 1 /\ self.workers = <<>>
    /\ self.user_data[self.current_user].total_wpm > 0

\* the step records a test result for the current user
ResultRecorded ==
    /\ self'.current_user = self.current_user
    /\ TestsCompleted(self') = TestsCompleted(self) + 1

\* the WPM the step adds to the running total of the current user
RecordedWpm ==
    self'.user_data[self'.current_user].total_wpm
        - (IF self.current_user \in DOMAIN self.user_data
           THEN self.user_data[self.current_user].total_wpm ELSE 0)

\* the integer part of words / minutes, minutes being seconds / 60
WordsPerMinute(words_num, words_den, seconds) ==
    (words_num * 60) \div (words_den * seconds)

(* C26: the WPM recorded when a test completes is the integer part of: in the *)
(* 30sec mode (chars / 5) / (30 / 60), whatever the elapsed time; in the      *)
(* 30word mode 30 / (elapsed / 60), whatever was typed; in the unlimited mode *)
(* (chars / 5) / (elapsed / 60), or chars / 5 when no time has elapsed.       *)
(* (The 30word mode records 0 when no time has elapsed.)                      *)
C26_FinalWpmByMode ==
    [][(ResultRecorded /\ self'.game_mode # None) =>
          LET chars == self'.total_chars_typed
              elapsed == self'.elapsed_time
          IN /\ self'.game_state = "COMPLETE"
             /\ self'.game_mode = "30sec" =>
                   RecordedWpm = WordsPerMinute(chars, 5, SprintSeconds)
             /\ self'.game_mode = "30word" =>
                   RecordedWpm = IF elapsed = 0 THEN 0
                                 ELSE WordsPerMinute(SprintWords, 1, elapsed)
             /\ self'.game_mode = "unlimited" =>
                   RecordedWpm = IF elapsed = 0 THEN chars \div 5
                                 ELSE WordsPerMinute(chars, 5, elapsed)]_vars

\* a 30sec test of five characters that the countdown ended after 60 seconds:
\* 2 WPM
C26_Witness ==
    /\ self.game_state = "COMPLETE" /\ self.game_mode = "30sec"
    /\ self.elapsed_time = 2 * SprintSeconds /\ self.total_chars_typed = 5
    /\ TestsCompleted(self) = 1
    /\ self.user_data[self.current_user].total_wpm = 2

\* No test completes with no character typed: the clock starts with the first
\* character appended (handle_character 1608-1633), the countdown completes
\* only a session whose clock has started (1720), and a line is complete only
\* with as many characters typed as it has.  The case of C27 does not arise.
CompleteHasCharacters ==
    self.game_state = "COMPLETE" => self.total_chars_typed >= 1

\* the step appends a character while no time has elapsed on the clock
CharAppendedAtZeroElapsed ==
    CharAppended /\ self'.start_time > 0 /\ self'.elapsed_time = 0

\* the step records a result of a session with a mode and zero elapsed time
RecordedAtZeroElapsed ==
    ResultRecorded /\ self'.game_mode # None /\ self'.elapsed_time = 0

\* with no character counted the final and the live accuracy are 0
ZeroCharsZeroAccuracy ==
    self'.total_chars_typed = 0 => (self'.accuracy = 0 /\ self'.live_accuracy = 0)

NoMistypedKey(s) ==
    /\ s.mistake_positions = {}
    /\ \A i \in 1..Len(s.completed_lines_history) : s.completed_lines_history[i][3] = {}

\* the step completes the third line of a session whose lines have ten words
ThirdTenWordLineCompleted ==
    /\ self.lines_completed = 2 /\ self'.lines_completed = 3
    /\ \A i \in 1..Len(self'.completed_lines_history) :
          Len(split(self'.completed_lines_history[i][1])) = max_words_per_line

(* C29: a test completed with no mistyped key has 0 mistakes and accuracy     *)
(* 100.0; in the 30word mode the step that completes the third of three       *)
(* ten-word lines typed with no mistyped key completes the test with          *)
(* total_words_typed = 30 and accuracy 100.0.                                 *)
C29_CorrectTypingIsPerfect ==
    [][/\ (self'.game_state = "COMPLETE" /\ NoMistypedKey(self')) =>
             (self'.mistakes = 0 /\ self'.accuracy = 1000)
       /\ (self.game_mode = "30word" /\ ThirdTenWordLineCompleted /\ NoMistypedKey(self')) =>
             /\ self.game_state = "IN_TEST" /\ self'.game_state = "COMPLETE"
             /\ self'.total_words_typed = SprintWords
             /\ self'.mistakes = 0 /\ self'.accuracy = 1000
             /\ ResultRecorded]_vars

\* a 30word test of three ten-word lines, every character typed correctly:
\* complete with 30 words, no mistake, accuracy 100.0, one result recorded
C29_Witness ==
    /\ self.game_state = "COMPLETE" /\ self.game_mode = "30word"
    /\ self.lines_completed = 3 /\ self.total_words_typed = SprintWords
    /\ self.total_chars_typed = 3 * (2 * max_words_per_line - 1)
    /\ NoMistypedKey(self) /\ self.mistakes = 0 /\ self.accuracy = 1000
    /\ TestsCompleted(self) = 1

\* aggregate b is aggregate a with one result of wpm and accuracy recorded
RecordsOneResult(a, b, wpm, accuracy) ==
    /\ b.tests_completed = a.tests_completed + 1
    /\ b.total_wpm = a.total_wpm + wpm
    /\ b.total_accuracy = a.total_accuracy + accuracy
    /\ b.best_wpm = Max(a.best_wpm, wpm)
    /\ b.best_accuracy = Max(a.best_accuracy, accuracy)

\* the aggregate of user u before the step, a new one if u has none
AggregateBefore(u) ==
    IF HasUser(self.user_data, u) THEN self.user_data[u] ELSE NewAggregate

(* C30: a step that changes the aggregates changes that of the current user   *)
(* alone and records one result in it: starting from the existing aggregate,  *)
(* or from a new one if the user has none, tests_completed grows by 1, the    *)
(* WPM and the accuracy of the completed test are added to the totals, and    *)
(* each best is the maximum of the old best and the new value; no aggregate   *)
(* is removed and no best decreases.                                          *)
C30_ResultRecordedInAggregate ==
    [][/\ DOMAIN self.user_data \subseteq DOMAIN self'.user_data
       /\ \A u \in DOMAIN self'.user_data :
             \/ self'.user_data[u] = AggregateBefore(u)
             \/ /\ u = self.current_user /\ self'.game_state = "COMPLETE"
                /\ RecordsOneResult(AggregateBefore(u), self'.user_data[u],
                                    FinalWpm(self'.game_mode, self'.total_chars_typed,
                                             self'.elapsed_time),
                                    self'.accuracy)
       /\ \A u \in DOMAIN self.user_data :
             /\ self'.user_data[u].best_wpm >= self.user_data[u].best_wpm
             /\ self'.user_data[u].best_accuracy >= self.user_data[u].best_accuracy
      ]_vars

\* the current user had no aggregate while another user had one (the totals
\* are not those of PastAggregate plus one result); after a test at 100.0 %
\* and a worse one the aggregate holds both and the bests are the first one's
C30_Witness ==
    /\ self.game_state = "COMPLETE" /\ self.current_user = "ann"
    /\ DOMAIN self.user_data = {"ann", "bob"}
    /\ self.user_data["bob"] = PastAggregate
    /\ self.user_data["ann"].tests_completed = 2
    /\ self.user_data["ann"].best_accuracy = 1000
    /\ self.user_data["ann"].total_accuracy = 1000 + self.accuracy
    /\ self.accuracy < PastAggregate.best_accuracy
    /\ self.user_data["ann"].best_wpm * 2 > self.user_data["ann"].total_wpm
    /\ self.users_file.users = self.user_data

\* the step completes a test whose result (wpm, accuracy) is the one result
\* the current user's aggregate already holds
SameResultAgain ==
    /\ self.game_state # "COMPLETE" /\ self'.game_state = "COMPLETE"
    /\ self'.current_user = self.current_user
    /\ HasUser(self.user_data, self.current_user)
    /\ LET user == self.user_data[self.current_user]
       IN /\ user.tests_completed = 1
          /\ user.total_wpm = FinalWpm(self'.game_mode, self'.total_chars_typed,
                                        self'.elapsed_time)
          /\ user.total_accuracy = self'.accuracy

(* C31 as stated: recording the same (username, wpm, accuracy) a second time  *)
(* leaves the user's aggregate as recording it once left it.                  *)
C31_RecordIsIdempotent ==
    [][SameResultAgain => self'.user_data = self.user_data]_vars

(* C31 amended: recording the same result a second time leaves only the bests *)
(* as recording it once left them; tests_completed becomes 2 and both totals  *)
(* twice the result.                                                          *)
C31_RecordAccumulates ==
    [][SameResultAgain =>
          LET once  == self.user_data[self.current_user]
              twice == self'.user_data[self.current_user]
          IN /\ twice.tests_completed = 2
             /\ twice.total_wpm = 2 * once.total_wpm
             /\ twice.total_accuracy = 2 * once.total_accuracy
             /\ twice.best_wpm = once.best_wpm
             /\ twice.best_accuracy = once.best_accuracy
             /\ \A u \in DOMAIN self.user_data \ {self.current_user} :
                   self'.user_data[u] = self.user_data[u]]_vars

\* two tests with the same result completed: two tests counted, the totals
\* twice the bests
C31_Witness ==
    /\ self.game_state = "COMPLETE" /\ HasUser(self.user_data, self.current_user)
    /\ self.user_data[self.current_user].tests_completed = 2
    /\ self.user_data[self.current_user].best_wpm > 0
    /\ self.user_data[self.current_user].total_wpm
         = 2 * self.user_data[self.current_user].best_wpm
    /\ self.user_data[self.current_user].total_accuracy
         = 2 * self.user_data[self.current_user].best_accuracy
    /\ self.user_data[self.current_user].best_accuracy = self.accuracy
    /\ self.completed_lines_history # <<>> /\ self.workers = <<>>

(* C32: whatever the condition of texts.json, loading the texts raises no     *)
(* error and leaves the phrase set and the paragraph set non-empty.           *)
C32_TextsLoadedOrDefault ==
    self.raised = None /\ self.phrases # {} /\ self.paragraphs # {}

\* the states the step would reach from the same handler with the write of
\* users.json succeeding
OutcomesWithSave ==
    LET envs == [now : {now}, choice : self.paragraphs, io_ok : {TRUE}]
    IN (IF self.workers # <<>>
        THEN {handle_character([self EXCEPT !.workers = Tail(@)], Head(self.workers), e) :
                 e \in envs}
        ELSE {})
       \cup (IF self.intervals["update_countdown"] > 0
             THEN {update_countdown(self, e) : e \in envs} ELSE {})

\* the step records a result and the write of users.json fails: the file is
\* as it was and lacks the result
SaveFailedAtCompletion ==
    /\ ResultRecorded
    /\ self'.users_file = self.users_file
    /\ self'.users_file.users # self'.user_data

(* C33: when the write of users.json fails at completion, the state is        *)
(* COMPLETE, the aggregate in memory holds the recorded result, no error is   *)
(* raised, and everything but the file is as a successful write leaves it.    *)
C33_FailedSaveKeepsTest ==
    [][SaveFailedAtCompletion =>
          /\ self'.game_state = "COMPLETE" /\ self'.completed
          /\ self'.raised = None
          /\ RecordsOneResult(AggregateBefore(self.current_user),
                              self'.user_data[self'.current_user],
                              FinalWpm(self'.game_mode, self'.total_chars_typed,
                                       self'.elapsed_time),
                              self'.accuracy)
          /\ save_user_data(self', TRUE) \in OutcomesWithSave]_vars

\* a test completed while users.json could not be written: COMPLETE, the
\* result in memory, the file still without it
C33_Witness ==
    /\ self.game_state = "COMPLETE" /\ self.raised = None
    /\ TestsCompleted(self) = 1 /\ self.accuracy = 1000
    /\ self.user_data[self.current_user].best_wpm > 0
    /\ self.users_file.users[self.current_user].tests_completed = 0

(* C34: within a session the history only grows at its end: every entry it   *)
(* holds stays as it is through each step, whatever is typed, marked or       *)
(* cleared afterwards, and an entry is appended with the marks the line had   *)
(* when it was stored; the history is emptied only when a session starts anew. *)
C34_HistoryEntriesNeverChange ==
    [][LET h0 == self.completed_lines_history
           h1 == self'.completed_lines_history
       IN \/ h1 = <<>> /\ (h0 # <<>> => SessionReset)
          \/ /\ Len(h1) >= Len(h0)
             /\ SubSeq(h1, 1, Len(h0)) = h0
             /\ \A i \in (Len(h0) + 1)..Len(h1) :
                   /\ self.mistake_positions \subseteq h1[i][3]
                   /\ h1[i][3] \subseteq self.mistake_positions \cup {Len(self.typed_text)}
      ]_vars

\* a line was stored with its mistake at offset 2; the set was cleared, and
\* a mistake marked at offset 1 of the next line since
C34_Witness ==
    /\ self.game_state = "IN_TEST" /\ self.lines_completed = 1
    /\ Len(self.completed_lines_history) = 1
    /\ self.completed_lines_history[1][3] = {2}
    /\ self.mistake_positions = {1}

RECURSIVE WordsOfLines(_)
\* the words of the lines, in order
WordsOfLines(lines) ==
    IF lines = <<>> THEN <<>> ELSE split(lines[1]) \o WordsOfLines(Tail(lines))

(* C35: the lines split_into_lines returns for a paragraph and a maximum M    *)
(* have between 1 and M words each, exactly M each but for the last, and      *)
(* their words in order are the whitespace-separated words of the paragraph.  *)
C35_SplitIsGreedyChunking ==
    self.returned =>
        /\ \A i \in 1..Len(self.lines) :
              /\ Len(split(self.lines[i])) \in 1..self.max
              /\ i < Len(self.lines) => Len(split(self.lines[i])) = self.max
        /\ WordsOfLines(self.lines) = split(self.paragraph)

\* three words split with a maximum of 2: a two-word line and a one-word line
C35_Witness ==
    /\ self.returned /\ self.max = 2
    /\ self.paragraph = <<"a", " ", "b", " ", "a">>
    /\ self.lines = << <<"a", " ", "b">>, <<"a">> >>

\* the step is new_paragraph, called for the key n in COMPLETE
NewParagraphCalled ==
    /\ self.game_state = "COMPLETE"
    /\ \E c \in self.paragraphs : self' = on_key(self, "n", c)

\* the session of the state is a paragraph of the library, not yet typed
ParagraphStarted(s) ==
    /\ s.current_paragraph \in s.paragraphs
    /\ s.current_lines = split_into_lines(s.current_paragraph, max_words_per_line)
    /\ s.target_text = s.current_lines[1]
    /\ SessionIsFresh(s) /\ TimingIsFresh(s)

C37_CompleteOnlyFromRunning ==
    [][(self.game_state # "COMPLETE" /\ self'.game_state = "COMPLETE") =>
          self.game_state = "IN_TEST"]_vars

\* the step is a timer callback
Tick == CountdownTick \/ TimerTick

(* C38: in every state completed is true exactly when game_state is COMPLETE, *)
(* and a timer callback that runs in COMPLETE changes nothing.                *)
C38_CompletedIffComplete ==
    [][/\ self.completed <=> self.game_state = "COMPLETE"
       /\ self'.completed <=> self'.game_state = "COMPLETE"
       /\ (Tick /\ self.game_state = "COMPLETE") => self' = self]_vars

\* a finished 30sec test whose countdown timer is still registered and whose
\* 30 seconds are over: the callback runs and finds the flag set
C38_Witness ==
    /\ self.game_state = "COMPLETE" /\ self.completed
    /\ self.game_mode = "30sec" /\ self.intervals["update_countdown"] > 0
    /\ self.start_time > 0 /\ now >= self.start_time + SprintSeconds
    /\ TestsCompleted(self) = 1

(* C39: in every state a started clock (start_time > 0) comes with at least   *)
(* one character counted, and so does COMPLETE: no test completes with zero   *)
(* characters typed.                                                          *)
C39_ClockStartedByCharacter ==
    /\ self.start_time > 0 => self.total_chars_typed >= 1
    /\ self.game_state = "COMPLETE" => (self.start_time > 0 /\ self.total_chars_typed >= 1)

\* the first character has just started the clock: one character counted,
\* the test running with its one timer
C39_Witness ==
    /\ self.game_state = "IN_TEST" /\ self.start_time > 0
    /\ self.total_chars_typed = 1 /\ self.typed_text = <<"a">>
    /\ NumTimers = 1 /\ self.workers = <<>>

RECURSIVE WordsInHistory(_)
\* the sum of the word counts of the target lines stored in the history
WordsInHistory(h) ==
    IF h = <<>> THEN 0 ELSE Len(split(h[1][1])) + WordsInHistory(Tail(h))

(* C40: in every state other than COMPLETE the history has lines_completed    *)
(* entries and total_words_typed is the sum of the word counts of the target  *)
(* lines stored in it.                                                        *)
C40_HistoryMatchesCounters ==
    self.game_state # "COMPLETE" =>
        /\ Len(self.completed_lines_history) = self.lines_completed
        /\ self.total_words_typed = WordsInHistory(self.completed_lines_history)

\* the ten-word first line of a paragraph is stored and the second line is
\* the target: one entry, one line counted, ten words
C40_Witness ==
    /\ self.game_state = "IN_TEST" /\ self.current_line_index = 1
    /\ self.lines_completed = 1 /\ Len(self.completed_lines_history) = 1
    /\ self.total_words_typed = max_words_per_line
    /\ self.typed_text = <<>>

=============================================================================
